---- MODULE Spec2Model ----
(***************************************************************************)
(* Model of the infimobile user log monitor: the Flask log server          *)
(* (log_server.py: POST /log, GET /logs, GET /anomaly over logs.db) and    *)
(* the Streamlit dashboard (log_dashboard.py: cached load_logs, filters,   *)
(* hourly aggregation and IsolationForest detection over /tmp/logs.db).    *)
(* Instants are whole minutes; the TEXT column received_at holds the       *)
(* isoformat text of an instant, modelled as a record of hour and minute   *)
(* fields, or an empty / unparseable / NULL text.                          *)
(***************************************************************************)
EXTENDS Integers, Sequences, FiniteSets, TLC

VARIABLES
    clock,      \* datetime.now() of the host, in minutes
    logs_db,    \* the server's table logs: [rows, seq] (seq = sqlite_sequence)
    req,        \* POST /log requests: position, parsed data, response
    resp,       \* the last response of GET /logs or GET /anomaly
    tmp_db,     \* the dashboard's table logs in /tmp/logs.db (has a user column)
    cache,      \* st.cache_data entry of load_logs: [full, df]
    run,        \* the dashboard script run: position, snapshot, df_logs, view
    records,    \* aggregation input: the received_at texts of a record set
    grouped     \* aggregation output: [site, windows, anomalies, fitted]

vars == <<clock, logs_db, req, resp, tmp_db, cache, run, records, grouped>>

\* ------------------------------------------------------------------ bounds
MaxTicks == 1          \* the clock advances at most this many times
MaxRequests == 2       \* POST /log requests issued in one behaviour

\* ------------------------------------------------------- program constants
Hour == 60             \* dt.floor("h"): minutes per hourly window
MinWindows == 5        \* len(grouped) < 5: no model is fitted
ContaminationPct == 20 \* IsolationForest(contamination=0.2)

TickStep == Hour \div 2            \* minutes per clock advance
MaxInFlight == MaxRequests         \* every request may be in flight at once

NULL == "NULL"
Required == {"type", "message", "device", "android_version"}

\* --------------------------------------------------------- timestamp texts
\* datetime.isoformat(): the text of an instant
Isoformat(t) == [k |-> "iso", h |-> t \div Hour, m |-> t % Hour]
EmptyText == [k |-> "empty", h |-> 0, m |-> 0]
JunkText == [k |-> "junk", h |-> 0, m |-> 0]
NullText == [k |-> "null", h |-> 0, m |-> 0]

NaT == -1
\* pd.to_datetime(x, errors='coerce'): the instant of a text, NaT when none
ToDatetimeCoerce(x) == IF x.k = "iso" THEN x.h * Hour + x.m ELSE NaT
\* pd.to_datetime(series) raises on a text that is no date; '' and NULL give NaT
ToDatetimeRaises(xs) == \E i \in DOMAIN xs : xs[i].k = "junk"
\* Timestamp.floor("h")
FloorHour(t) == IF t = NaT THEN NaT ELSE (t \div Hour) * Hour

\* ---------------------------------------------------------- POST /log data
ClientTime == MaxTicks * TickStep + Hour + 7
FullData(ra) ==
    [body |-> "object", type |-> "CRASH", message |-> "m", device |-> "d",
     android_version |-> "14", received_at |-> ra]
Without(f) == [FullData(NullText) EXCEPT ![f] = NULL]
Malformed == [FullData(NullText) EXCEPT !.body = "malformed"]
Submissions ==
    {FullData(NullText), FullData(Isoformat(ClientTime)), Malformed}
        \cup {Without(f) : f \in Required}
\* what the ingestion boundary should reject
Invalid(sub) == sub.body # "object" \/ \E f \in Required : sub[f] = NULL

NoData == FullData(NullText)
NewReq == [pc |-> "new", sub |-> NoData, data |-> NoData, at |-> 0,
           status |-> 0, id |-> 0]

\* receive_log line 79: data["received_at"] = datetime.now().isoformat()
StampKeepClient(data, now) ==
    IF data.received_at = NullText
    THEN [data EXCEPT !.received_at = Isoformat(now)] ELSE data
Stamp(data, now) == [data EXCEPT !.received_at = Isoformat(now)]

\* save_log_to_db: one INSERT, the id from AUTOINCREMENT, then commit
InsertReuseId(db, data) ==
    [rows |-> Append(db.rows,
                     [id |-> IF db.seq = 0 THEN 1 ELSE db.seq,
                      type |-> data.type, message |-> data.message,
                      device |-> data.device,
                      android_version |-> data.android_version,
                      received_at |-> data.received_at]),
     seq |-> IF db.seq = 0 THEN 1 ELSE db.seq]
Insert(db, data) ==
    [rows |-> Append(db.rows,
                     [id |-> db.seq + 1,
                      type |-> data.type, message |-> data.message,
                      device |-> data.device,
                      android_version |-> data.android_version,
                      received_at |-> data.received_at]),
     seq |-> db.seq + 1]

RequestIds == 1..MaxRequests
InFlight == {r \in RequestIds : req[r].pc = "save"}

\* init_db: CREATE TABLE IF NOT EXISTS logs on a fresh file
EmptyDb == [rows |-> <<>>, seq |-> 0]

NoGrouped == [site |-> "none", status |-> "none", windows |-> <<>>,
              anomalies |-> {}, fitted |-> FALSE]

NoResp == [ep |-> "none", status |-> 0, kind |-> "none", rows |-> <<>>,
           windows |-> <<>>, anomalies |-> {}, fitted |-> FALSE]

NoInputs == [keyword |-> <<>>, type |-> "ALL", user |-> <<>>, dates |-> <<>>]
NoView == [status |-> "none", records |-> {}, windows |-> <<>>,
           anomalies |-> {}, fitted |-> FALSE]
NoRun == [pc |-> "idle", started |-> <<>>, df |-> <<>>, inputs |-> NoInputs,
          view |-> NoView]

OtherInit ==
    /\ resp = NoResp
    /\ tmp_db = <<>>
    /\ cache = [full |-> FALSE, df |-> <<>>]
    /\ run = NoRun
    /\ records = <<>>
    /\ grouped = NoGrouped

Init ==
    /\ clock = 0
    /\ logs_db = EmptyDb
    /\ req = [r \in RequestIds |-> NewReq]
    /\ OtherInit

\* the host clock advances
Tick ==
    /\ clock + TickStep <= MaxTicks * TickStep
    /\ clock' = clock + TickStep
    /\ UNCHANGED <<logs_db, req, resp, tmp_db, cache, run, records, grouped>>

\* receive_log lines 77-79 (and 83-85 when get_json raises): parse and stamp
Receive(r, sub) ==
    /\ req[r].pc = "new"
    /\ \A q \in RequestIds : q < r => req[q].pc # "new"
    /\ Cardinality(InFlight) < MaxInFlight
    /\ IF sub.body # "object"
       THEN req' = [req EXCEPT ![r] =
                [NewReq EXCEPT !.pc = "done", !.sub = sub, !.at = clock,
                               !.status = 500]]
       ELSE req' = [req EXCEPT ![r] =
                [NewReq EXCEPT !.pc = "save", !.sub = sub, !.at = clock,
                               !.data = Stamp(sub, clock)]]
    /\ UNCHANGED <<clock, logs_db, resp, tmp_db, cache, run, records, grouped>>

\* receive_log lines 80-82: save_log_to_db commits, the response is 200
Save(r) ==
    /\ req[r].pc = "save"
    /\ logs_db' = Insert(logs_db, req[r].data)
    /\ req' = [req EXCEPT ![r].pc = "done", ![r].status = 200,
                          ![r].id = logs_db'.seq]
    /\ UNCHANGED <<clock, resp, tmp_db, cache, run, records, grouped>>

\* receive_log lines 83-85: sqlite3 raises (locked, I/O), the response is 500
SaveFails(r) ==
    /\ req[r].pc = "save"
    /\ req' = [req EXCEPT ![r].pc = "done", ![r].status = 500]
    /\ UNCHANGED <<clock, logs_db, resp, tmp_db, cache, run, records, grouped>>

Next ==
    \/ Tick
    \/ \E r \in RequestIds, sub \in Submissions : Receive(r, sub)
    \/ \E r \in RequestIds : Save(r)
    \/ \E r \in RequestIds : SaveFails(r)

Spec == Init /\ [][Next]_vars

\* ------------------------------------------------ aggregation and detection
MaxRecords == 5        \* records in an aggregated record set

RECURSIVE SortAscending(_)
\* groupby(...) sorts the group keys: a set of hours as an ascending sequence
SortAscending(S) ==
    IF S = {} THEN <<>>
    ELSE LET lo == CHOOSE x \in S : \A y \in S : x <= y
         IN <<lo>> \o SortAscending(S \ {lo})

RECURSIVE FirstSeen(_)
\* the keys in order of first appearance, as groupby(..., sort=False) gives
FirstSeen(hs) ==
    IF hs = <<>> THEN <<>>
    ELSE LET h == Head(hs)
             rest == FirstSeen(SelectSeq(Tail(hs), LAMBDA x : x # h))
         IN IF h = NaT THEN rest ELSE <<h>> \o rest

\* df.groupby("hour").size().reset_index(name="log_count"): one row per hour
\* present (NaT keys are dropped), ascending, log_count = rows of that hour
GroupByUnsorted(hs) ==
    LET keys == FirstSeen(hs)
    IN [n \in DOMAIN keys |->
           [hour |-> keys[n],
            log_count |-> Cardinality({i \in DOMAIN hs : hs[i] = keys[n]})]]
GroupByNunique(hs) ==
    LET keys == SortAscending({hs[i] : i \in DOMAIN hs} \ {NaT})
    IN [n \in DOMAIN keys |-> [hour |-> keys[n], log_count |-> 1]]
GroupByHour(hs) ==
    LET keys == SortAscending({hs[i] : i \in DOMAIN hs} \ {NaT})
    IN [n \in DOMAIN keys |->
           [hour |-> keys[n],
            log_count |-> Cardinality({i \in DOMAIN hs : hs[i] = keys[n]})]]

\* IsolationForest(contamination=0.2).fit_predict(grouped[["log_count"]]),
\* then grouped[grouped["anomaly"] == -1]: the label is a function of the one
\* feature log_count, and the rows scoring below the contamination percentile
\* of the scores are at most ceil(0.2 * (n - 1)). Which rows those are depends
\* on the random trees: every labelling within these limits is an outcome.
FitPredict(windows) ==
    LET n == Len(windows)
    IN {S \in SUBSET {windows[i].hour : i \in DOMAIN windows} :
          /\ 100 * Cardinality(S) <= ContaminationPct * (n - 1) + 99
          /\ \A i, j \in DOMAIN windows :
                windows[i].log_count = windows[j].log_count
                    => (windows[i].hour \in S <=> windows[j].hour \in S)}

\* load_logs lines 46-47: to_datetime(errors='coerce'), dropna(received_at)
LoadParse(texts) ==
    LET ts == [i \in DOMAIN texts |-> ToDatetimeCoerce(texts[i])]
    IN SelectSeq(ts, LAMBDA t : t # NaT)

\* detect_anomalies lines 58-60 (dashboard), 115-116 (server): the hour column
HourColumn(ts) == [i \in DOMAIN ts |-> FloorHour(ts[i])]

AggTimes == {0, TickStep} \cup {k * Hour : k \in 1..(MinWindows - 1)}
AggTexts == {Isoformat(t) : t \in AggTimes} \cup {EmptyText, JunkText}
RecordSets == UNION {[1..n -> AggTexts] : n \in 0..MaxRecords}

InitAgg ==
    /\ clock = 0
    /\ logs_db = EmptyDb
    /\ req = [r \in RequestIds |-> NewReq]
    /\ resp = NoResp
    /\ tmp_db = <<>>
    /\ cache = [full |-> FALSE, df |-> <<>>]
    /\ run = NoRun
    /\ records \in RecordSets
    /\ grouped = NoGrouped

Outcome(site, status, windows, S, fitted) ==
    [site |-> site, status |-> status, windows |-> windows, anomalies |-> S,
     fitted |-> fitted]

\* detect_anomalies(df) of the dashboard, lines 57-66, over the received_at
\* column of df: every (grouped, anomalies) it can return
DetectAnomalies(ts) ==
    LET windows == GroupByHour(HourColumn(ts))
    IN IF Len(windows) < MinWindows
       THEN {Outcome("dashboard", "ok", windows, {}, FALSE)}
       ELSE {Outcome("dashboard", "ok", windows, S, TRUE) :
                S \in FitPredict(windows)}

\* GET /anomaly lines 114-125 over the received_at texts of a non-empty frame
\* of error records. to_datetime raises on a text that is no date and fit
\* raises on an empty frame: Flask answers an unhandled exception with 500.
ServerDetect(texts) ==
    LET windows == GroupByHour(HourColumn(
                       [i \in DOMAIN texts |-> ToDatetimeCoerce(texts[i])]))
    IN IF ToDatetimeRaises(texts) THEN {Outcome("server", "raised", <<>>, {}, FALSE)}
       ELSE IF windows = <<>>
       THEN {Outcome("server", "raised", windows, {}, FALSE)}
       ELSE {Outcome("server", "ok", windows, S, TRUE) :
                S \in FitPredict(windows)}

\* the dashboard: load_logs, then detect_anomalies(df_logs)
AggDashboard ==
    /\ grouped.site = "none"
    /\ \E o \in DetectAnomalies(LoadParse(records)) : grouped' = o
    /\ UNCHANGED <<clock, logs_db, req, resp, tmp_db, cache, run, records>>

\* the server: the frame of error records through lines 114-125
AggServer ==
    /\ grouped.site = "none"
    /\ records # <<>>
    /\ \E o \in ServerDetect(records) : grouped' = o
    /\ UNCHANGED <<clock, logs_db, req, resp, tmp_db, cache, run, records>>

NextAgg == AggDashboard \/ AggServer

SpecAgg == InitAgg /\ [][NextAgg]_vars

\* ------------------------------------------------------ GET /logs, /anomaly
MaxStored == 3         \* rows of logs.db found at start-up

ErrorTypes == {"API_ERROR", "CRASH"}
LogTypes == ErrorTypes \cup {"INFO"}

\* fetch_logs(log_type) lines 53-70: WHERE type = ? when log_type is truthy
FetchLogs(db, log_type) ==
    IF log_type \notin {NULL, ""}
    THEN SelectSeq(db.rows, LAMBDA row : row.type = log_type)
    ELSE db.rows

Column(rows) == [i \in DOMAIN rows |-> rows[i].received_at]

\* detect_anomalies lines 99-125: every response GET /anomaly can give
AnomalyResponses(db) ==
    LET logs == FetchLogs(db, NULL)
        df == SelectSeq(logs, LAMBDA row : row.type \in ErrorTypes)
    IN IF logs = <<>>
       THEN {[NoResp EXCEPT !.ep = "anomaly", !.status = 404, !.kind = "error"]}
       ELSE IF df = <<>>
       THEN {[NoResp EXCEPT !.ep = "anomaly", !.status = 200, !.kind = "message"]}
       ELSE {IF o.status = "raised"
             THEN [NoResp EXCEPT !.ep = "anomaly", !.status = 500,
                                 !.kind = "exception"]
             ELSE [NoResp EXCEPT !.ep = "anomaly", !.status = 200,
                                 !.kind = "anomalies", !.windows = o.windows,
                                 !.anomalies = o.anomalies, !.fitted = o.fitted] :
                o \in ServerDetect(Column(df))}

StoredRow(n, type, ra) ==
    [id |-> n, type |-> type, message |-> "m", device |-> "d",
     android_version |-> "14", received_at |-> ra]
StoredTexts == {Isoformat(0), Isoformat(Hour), EmptyText, JunkText}
\* a logs.db that init_db finds and keeps (CREATE TABLE IF NOT EXISTS)
StoredDb(n, ty, ra) ==
    [rows |-> [i \in 1..n |-> StoredRow(i, ty[i], ra[i])], seq |-> n]

InitQuery ==
    /\ clock = 0
    /\ \E n \in 0..MaxStored :
          \E ty \in [1..n -> LogTypes], ra \in [1..n -> StoredTexts] :
              logs_db = StoredDb(n, ty, ra)
    /\ req = [r \in RequestIds |-> NewReq]
    /\ OtherInit

\* get_logs lines 90-94
GetLogs(log_type) ==
    /\ resp' = [NoResp EXCEPT !.ep = "logs", !.status = 200, !.kind = "rows",
                              !.rows = FetchLogs(logs_db, log_type)]
    /\ UNCHANGED <<clock, logs_db, req, tmp_db, cache, run, records, grouped>>

\* detect_anomalies lines 99-125
GetAnomaly ==
    /\ \E r \in AnomalyResponses(logs_db) : resp' = r
    /\ UNCHANGED <<clock, logs_db, req, tmp_db, cache, run, records, grouped>>

NextQuery ==
    \/ \E log_type \in LogTypes \cup {NULL} : GetLogs(log_type)
    \/ GetAnomaly

SpecQuery == InitQuery /\ [][NextQuery]_vars

\* ------------------------------------------------------------ the dashboard
MaxDashRows == 3       \* rows /tmp/logs.db grows to
DummyCount == 2        \* rows per insert_dummy_logs call (range(10), scaled)
Seconds == 60          \* seconds per minute, for Timedelta(seconds=1)

Day == 24 * Hour
DayOf(t) == t \div Day
All == <<"A", "L", "L">>
Unknown == <<"u", "n", "k">>

\* texts are sequences of characters; the repository's texts are abbreviated
TestMessage == <<"s", "i", "m">>          \* "Simulated crash for testing dashboard"
TestDevice == <<"P", "x">>                \* "Pixel 6a"
TestUser == <<"d", "e", "m", "o">>        \* "demo_user"
DummyMessage == <<"A", "p", "p">>         \* "App crashed unexpectedly"
DummyDevice == <<"P", "x">>               \* "Pixel 5"
DummyUser == <<"q", "a", ".", "c">>       \* "qa@test.com"
MaxOffset == 2 * Hour                     \* random.randint(0, 120) minutes

DashRow(n, type, message, device, user, ra) ==
    [id |-> n, type |-> type, message |-> message, device |-> device,
     user |-> user, received_at |-> ra]

Lower(c) == CASE c = "A" -> "a" [] c = "P" -> "p" [] c = "S" -> "s"
              [] OTHER -> c

\* Series.str.contains(pat, case=False, na=False): pat is searched as a
\* regular expression (regex=True is the default), where "." stands for any
\* character; NULL never matches
StrContains(pat, text) ==
    /\ text # <<>>  \/ pat = <<>>
    /\ \E o \in 0..(Len(text) - Len(pat)) :
          \A k \in 1..Len(pat) :
              pat[k] = "." \/ Lower(pat[k]) = Lower(text[o + k])

\* load_logs lines 43-49 without the cache: read, coerce, dropna, fill user
LoadLogs(db) ==
    LET parsed == [i \in DOMAIN db |->
                     [db[i] EXCEPT !.received_at = ToDatetimeCoerce(@),
                                   !.user = IF @ = <<>> THEN Unknown ELSE @]]
    IN SelectSeq(parsed, LAMBDA row : row.received_at # NaT)

\* lines 192-197
SearchFilter(df, keyword) ==
    IF keyword = <<>> THEN df
    ELSE SelectSeq(df, LAMBDA row : \/ StrContains(keyword, row.message)
                                    \/ StrContains(keyword, row.user)
                                    \/ StrContains(keyword, row.device))
\* lines 204-208: the options of the two select boxes
TypeOptions(df) == {"ALL"} \cup {df[i].type : i \in DOMAIN df}
UserOptions(df) == {All} \cup {df[i].user : i \in DOMAIN df}
\* lines 212-215
SelectFilter(df, type, user) ==
    SelectSeq(df, LAMBDA row : /\ (type # "ALL" => row.type = type)
                               /\ (user # All => row.user = user))
\* lines 223-226: dates = <<d0, d1>> filters, a single date does not
DateFilter(df, dates) ==
    IF Len(dates) # 2 THEN df
    ELSE SelectSeq(df, LAMBDA row :
             /\ dates[1] * Day * Seconds <= row.received_at * Seconds
             /\ row.received_at * Seconds
                   <= (dates[2] + 1) * Day * Seconds - 1)
\* line 222: what the date input can hold: one date, or a range, over the
\* days of the frame (an empty frame gives the input no date to hold)
DateOptions(df) ==
    LET days == {DayOf(df[i].received_at) : i \in DOMAIN df}
    IN {<<d>> : d \in days} \cup {<<d0, d1>> : d0, d1 \in days}

Ids(df) == {df[i].id : i \in DOMAIN df}
TimeColumn(df) == [i \in DOMAIN df |-> df[i].received_at]

\* lines 191-247: every view a script run can render from df_logs
Views(df, inp) ==
    LET searched == SearchFilter(df, inp.keyword)
        selected == SelectFilter(searched, inp.type, inp.user)
        shown == DateFilter(selected, inp.dates)
    IN {[status |-> "ok", records |-> Ids(shown), windows |-> o.windows,
         anomalies |-> o.anomalies, fitted |-> o.fitted] :
           o \in DetectAnomalies(TimeColumn(shown))}

\* what the widgets of a run over df can be set to
Inputs(df, keywords) ==
    UNION {UNION {{[keyword |-> kw, type |-> sel[1], user |-> sel[2],
                    dates |-> ds] :
                      ds \in DateOptions(SelectFilter(SearchFilter(df, kw),
                                                      sel[1], sel[2]))} :
                  sel \in TypeOptions(SearchFilter(df, kw))
                             \X UserOptions(SearchFilter(df, kw))} :
           kw \in keywords}

\* the prebuilt logs.db copied to /tmp/logs.db (lines 18-22)
PrebuiltDbs ==
    {<<>>,
     <<DashRow(1, "CRASH", TestMessage, TestDevice, TestUser, Isoformat(0))>>,
     <<DashRow(1, "INFO", DummyMessage, DummyDevice, <<>>, JunkText)>>}

InitDash ==
    /\ clock = Day
    /\ logs_db = EmptyDb
    /\ req = [r \in RequestIds |-> NewReq]
    /\ resp = NoResp
    /\ tmp_db \in PrebuiltDbs
    /\ cache = [full |-> FALSE, df |-> <<>>]
    /\ run = [NoRun EXCEPT !.pc = "load"]
    /\ records = <<>>
    /\ grouped = NoGrouped

DashTick ==
    /\ clock + TickStep <= Day + MaxTicks * TickStep
    /\ clock' = clock + TickStep
    /\ UNCHANGED <<logs_db, req, resp, tmp_db, cache, run, records, grouped>>

\* insert_test_log.py: one CRASH row stamped now, by a process of its own
InsertTestLog ==
    /\ Len(tmp_db) < MaxDashRows
    /\ tmp_db' = Append(tmp_db, DashRow(Len(tmp_db) + 1, "CRASH", TestMessage,
                                        TestDevice, TestUser, Isoformat(clock)))
    /\ UNCHANGED <<clock, logs_db, req, resp, cache, run, records, grouped>>

RECURSIVE InsertDummyLogs(_, _, _)
\* insert_dummy_logs lines 71-100: choice[k] = <<type, offset>> of row k
InsertDummyLogs(db, now, choice) ==
    IF choice = <<>> THEN db
    ELSE InsertDummyLogs(
             Append(db, DashRow(Len(db) + 1, Head(choice)[1], DummyMessage,
                                DummyDevice, DummyUser,
                                Isoformat(now - Head(choice)[2]))),
             now, Tail(choice))

\* lines 169-173: the button inserts, clears the cache and reruns the script
ClickInsertDummy ==
    /\ run.pc = "idle"
    /\ Len(tmp_db) + DummyCount <= MaxDashRows
    /\ \E choice \in [1..DummyCount -> LogTypes \X {0, MaxOffset}] :
          tmp_db' = InsertDummyLogs(tmp_db, clock, choice)
    /\ cache' = [full |-> FALSE, df |-> <<>>]
    /\ run' = [run EXCEPT !.pc = "load"]
    /\ UNCHANGED <<clock, logs_db, req, resp, records, grouped>>

\* lines 176-178: the button clears the cache and reruns the script
ClickRefresh ==
    /\ run.pc = "idle"
    /\ cache' = [full |-> FALSE, df |-> <<>>]
    /\ run' = [run EXCEPT !.pc = "load"]
    /\ UNCHANGED <<clock, logs_db, req, resp, tmp_db, records, grouped>>

\* any other widget change reruns the script; the cache is kept
Interact ==
    /\ run.pc = "idle"
    /\ run' = [run EXCEPT !.pc = "load"]
    /\ UNCHANGED <<clock, logs_db, req, resp, tmp_db, cache, records, grouped>>

\* lines 40-52 and 183-186: load_logs through st.cache_data; an empty frame
\* stops the script
Load ==
    /\ run.pc = "load"
    /\ LET df == IF cache.full THEN cache.df ELSE LoadLogs(tmp_db)
       IN /\ cache' = [full |-> TRUE, df |-> df]
          /\ run' = [pc |-> IF df = <<>> THEN "idle" ELSE "render",
                     started |-> tmp_db, df |-> df, inputs |-> NoInputs,
                     view |-> [NoView EXCEPT !.status =
                                  IF df = <<>> THEN "stopped" ELSE "loading"]]
    /\ UNCHANGED <<clock, logs_db, req, resp, tmp_db, records, grouped>>

DashKeywords == {<<>>, <<".">>, <<"a", "p">>, <<"x">>}

\* lines 191-247: the filters, the table and the chart of this run
Render ==
    /\ run.pc = "render"
    /\ \E inp \in Inputs(run.df, DashKeywords) : \E v \in Views(run.df, inp) :
          run' = [run EXCEPT !.pc = "idle", !.inputs = inp, !.view = v]
    /\ UNCHANGED <<clock, logs_db, req, resp, tmp_db, cache, records, grouped>>

NextDash ==
    \/ DashTick
    \/ InsertTestLog
    \/ ClickInsertDummy
    \/ ClickRefresh
    \/ Interact
    \/ Load
    \/ Render

SpecDash == InitDash /\ [][NextDash]_vars

\* ----------------------------------------------- one query of the dashboard
MaxFilterRows == 2     \* rows of the store a single query runs over

FilterRows ==
    {DashRow(0, type, message, TestDevice, user, Isoformat(t)) :
        type \in {"CRASH", "INFO"}, message \in {TestMessage, DummyMessage},
        user \in {TestUser, DummyUser}, t \in {0, Day}}
FilterDb(n, rows) == [i \in 1..n |-> [rows[i] EXCEPT !.id = i]]

\* a first script run of a fresh process over a store holding valid records
InitFilter ==
    /\ clock = Day
    /\ logs_db = EmptyDb
    /\ req = [r \in RequestIds |-> NewReq]
    /\ resp = NoResp
    /\ \E n \in 0..MaxFilterRows :
          \E rows \in [1..n -> FilterRows] : tmp_db = FilterDb(n, rows)
    /\ cache = [full |-> FALSE, df |-> <<>>]
    /\ run = [NoRun EXCEPT !.pc = "load"]
    /\ records = <<>>
    /\ grouped = NoGrouped

NextFilter == Load \/ Render

SpecFilter == InitFilter /\ [][NextFilter]_vars

\* ---------------------------------------------------------------- claims
Rows == logs_db.rows
Succeeded == {r \in RequestIds : req[r].pc = "done" /\ req[r].status = 200}

\* C3: every record stored through POST /log carries the server clock read
\* when the request was accepted, whatever received_at the client sent, and
\* ids are unique and strictly increasing in append order.
C3_ServerStampAndIds ==
    /\ \A i \in DOMAIN Rows : \E r \in Succeeded :
          /\ req[r].id = Rows[i].id
          /\ ToDatetimeCoerce(Rows[i].received_at) = req[r].at
    /\ \A i, j \in DOMAIN Rows : i < j => Rows[i].id < Rows[j].id

C3_Witness ==
    /\ Len(Rows) >= 2
    /\ \E r \in Succeeded :
          /\ req[r].sub.received_at = Isoformat(ClientTime)
          /\ \E q \in Succeeded : req[q].at > req[r].at

\* C4: under any interleaving of concurrent POST /log requests no write is
\* lost: every request answered 200 has exactly one row of its own, no two
\* share an id, and the table holds exactly one row per such request.
C4_NoLostWrite ==
    /\ \A r \in Succeeded :
          Cardinality({i \in DOMAIN Rows : Rows[i].id = req[r].id}) = 1
    /\ \A r, q \in Succeeded : r # q => req[r].id # req[q].id
    /\ Len(Rows) = Cardinality(Succeeded)

\* request 2 was received while request 1 was in flight and committed first
C4_Witness ==
    /\ {1, 2} \subseteq Succeeded
    /\ req[2].id < req[1].id

\* C7: a malformed submission, or one lacking a required field, is answered
\* with a client-error status and inserts no row.
C7_InvalidRejected ==
    \A r \in RequestIds :
        (req[r].pc = "done" /\ Invalid(req[r].sub))
            => (req[r].status \in 400..499 /\ req[r].id = 0)

Aggregated == grouped.site # "none"
Valid(x) == x.k = "iso"
ValidHours == {FloorHour(ToDatetimeCoerce(records[i])) :
                  i \in {j \in DOMAIN records : Valid(records[j])}}
InHour(h) == {i \in DOMAIN records :
                 Valid(records[i]) /\ FloorHour(ToDatetimeCoerce(records[i])) = h}
Windows == grouped.windows
RECURSIVE SumCounts(_)
SumCounts(ws) == IF ws = <<>> THEN 0 ELSE Head(ws).log_count + SumCounts(Tail(ws))

\* C1: at every call site, fewer than 5 hourly windows give an empty anomaly
\* set and no fitted model.
C1_ThresholdAtEverySite ==
    (Aggregated /\ Len(Windows) < MinWindows)
        => (grouped.anomalies = {} /\ ~grouped.fitted)

\* C2: when every received_at is valid, the window counts sum to the number
\* of records, and each record is counted in exactly one window, the one
\* starting at its received_at floored to the hour, shared by all the records
\* of that hour.
C2_CountsSumToRecords ==
    (Aggregated /\ \A i \in DOMAIN records : Valid(records[i]))
        => /\ grouped.status = "ok"
           /\ SumCounts(Windows) = Len(records)
           /\ \A i \in DOMAIN records :
                 \E n \in DOMAIN Windows :
                    /\ Windows[n].hour = FloorHour(ToDatetimeCoerce(records[i]))
                    /\ Windows[n].log_count = Cardinality(InHour(Windows[n].hour))
                    /\ \A k \in DOMAIN Windows :
                          Windows[k].hour = Windows[n].hour => k = n

C2_Witness ==
    /\ grouped.site = "server"
    /\ \A i \in DOMAIN records : Valid(records[i])
    /\ Len(Windows) >= 2
    /\ \E i, j \in DOMAIN records :
          /\ records[i] # records[j]
          /\ FloorHour(ToDatetimeCoerce(records[i]))
                = FloorHour(ToDatetimeCoerce(records[j]))

\* C6: an empty or unparseable received_at among valid records is counted in
\* no window and fails neither call site: the windows are those of the valid
\* records.
C6_InvalidExcluded ==
    (/\ Aggregated
     /\ \E i \in DOMAIN records : ~Valid(records[i])
     /\ \E i \in DOMAIN records : Valid(records[i]))
        => /\ grouped.status = "ok"
           /\ Windows = GroupByHour(HourColumn(LoadParse(records)))

\* C10: a completed aggregation has exactly one window per distinct hour of
\* the input, in strictly ascending order of start, each with a count of at
\* least 1; hours without a record have no window and empty input gives an
\* empty series.
C10_OneWindowPerHour ==
    grouped.status = "ok"
        => /\ {Windows[n].hour : n \in DOMAIN Windows} = ValidHours
           /\ Len(Windows) = Cardinality(ValidHours)
           /\ \A n \in DOMAIN Windows : Windows[n].log_count >= 1
           /\ \A n, k \in DOMAIN Windows :
                 n < k => Windows[n].hour < Windows[k].hour
           /\ (records = <<>> => Windows = <<>>)

\* an unsorted input with an empty hour between two of its windows
C10_Witness ==
    /\ grouped.site = "dashboard"
    /\ grouped.status = "ok"
    /\ \E n \in DOMAIN Windows :
          n + 1 \in DOMAIN Windows /\ Windows[n + 1].hour - Windows[n].hour > Hour
    /\ \E i, j \in DOMAIN records :
          /\ i < j /\ Valid(records[i]) /\ Valid(records[j])
          /\ ToDatetimeCoerce(records[i]) > ToDatetimeCoerce(records[j])

\* C8: GET /anomaly looks at API_ERROR and CRASH records only and answers
\* either the anomalous windows or an explicit no-data result, never an error
\* status or an error-shaped body, whatever the store holds.
C8_NoErrorForNoData ==
    resp.ep = "anomaly"
        => /\ resp.status = 200
           /\ resp.kind \in {"anomalies", "message"}
           /\ resp.anomalies \subseteq
                 {FloorHour(ToDatetimeCoerce(logs_db.rows[i].received_at)) :
                     i \in {j \in DOMAIN logs_db.rows :
                               logs_db.rows[j].type \in ErrorTypes}}

Substring(pat, text) ==
    \E o \in 0..(Len(text) - Len(pat)) :
        \A k \in 1..Len(pat) : Lower(pat[k]) = Lower(text[o + k])
Matches(row, inp) ==
    /\ inp.keyword # <<>> =>
          \/ Substring(inp.keyword, row.message)
          \/ Substring(inp.keyword, IF row.user = <<>> THEN Unknown ELSE row.user)
          \/ Substring(inp.keyword, row.device)
    /\ inp.type # "ALL" => row.type = inp.type
    /\ inp.user # All => row.user = inp.user
    /\ Len(inp.dates) = 2 =>
          /\ Valid(row.received_at)
          /\ DayOf(ToDatetimeCoerce(row.received_at)) \in inp.dates[1]..inp.dates[2]

\* C9: the records a query shows are exactly the stored records that satisfy
\* every predicate supplied: type equals, received_at within the date range,
\* case-insensitive substring over message, user and device.
C9_ExactSubset ==
    run.view.status = "ok"
        => run.view.records =
              {run.started[i].id :
                  i \in {j \in DOMAIN run.started :
                            Matches(run.started[j], run.inputs)}}

====
